---- MODULE Spec2Model ----
(***************************************************************************)
(* Model of m2py: the preferred-number-series lookup and rounding entry    *)
(* point (src/m2py/prefnumpy.py) and the saturated-steam helpers           *)
(* (src/thermo/steamtables.py).                                            *)
(***************************************************************************)
EXTENDS Integers, Sequences, FiniteSets, TLC

VARIABLES
    lk_called,        \* PrNmRLkUp has been called
    lk_PfT,           \* its argument PfT
    lk_ret,           \* its outcome: [raised, val], val = <<PfT, PfO, DfA>>
    pf_called,        \* prefnum has been called
    pf_InA,           \* argument InA (numeric vector)
    pf_PfT,           \* argument PfT
    pf_varargin,      \* argument varargin
    pf_locals,        \* the locals at the end of the body: [IxZ, IsV]
    pf_ret,           \* its outcome: [isNone, PfA, PfS]
    saturation_table, \* the table behind stable: <<_input, value>> -> row
    fn,               \* the steam function called last
    ph_T,             \* phase: argument T
    ph_P,             \* phase: argument P, <<>> for None
    ph_v,             \* phase: argument v, <<>> for None
    ph_ret,           \* phase: the label returned
    mv_x,             \* mixture_volume: argument x
    mv_value,         \* mixture_volume, vapor_quality: argument value
    mv_input,         \* mixture_volume, vapor_quality: argument _input
    mv_ret,           \* mixture_volume: the volume returned
    vq_ret            \* vapor_quality: [raised, val]

prefVars == <<lk_called, lk_PfT, lk_ret, pf_called, pf_InA, pf_PfT,
              pf_varargin, pf_locals, pf_ret>>
steamVars == <<saturation_table, fn, ph_T, ph_P, ph_v, ph_ret,
               mv_x, mv_value, mv_input, mv_ret, vq_ret>>
vars == <<prefVars, steamVars>>

(***************************************************************************)
(* Bounds of the model.                                                    *)
(***************************************************************************)
MaxLen == 2          \* longest input vector InA
MaxVal == 2          \* largest element of InA

(***************************************************************************)
(* Tokens.                                                                 *)
(***************************************************************************)
ETokens == {"E6", "E12", "E24", "E48", "E96", "E192"}
BasicTokens == {"R5", "R10", "R20", "R40", "R80"}
RoundedTokens == {"R'5", "R'10", "R'20", "R'40"}
TwiceRoundedTokens == {"R\"5", "R\"10", "R\"20"}
\* the enumerated set of inbuilt series names
KnownTokens == ETokens \cup BasicTokens \cup RoundedTokens
                 \cup TwiceRoundedTokens \cup {"125"}
\* strings that name no series
OtherTokens == {"E7", "1-2-5", "", "r5", "R160", "R'80", "R\"40"}
Tokens == KnownTokens \cup OtherTokens
\* the series arguments prefnum is called with
PrefTokens == {"R5", "R'5", "R\"5", "E6", "125", "E7"}

(***************************************************************************)
(* The tables of PrNmRLkUp.                                                *)
(***************************************************************************)
Tab_R5 == <<100, 158, 251, 398, 631>>
Tab_R10 == <<100, 125, 160, 200, 250, 315, 400, 500, 630, 800>>
Tab_R20 == <<100, 112, 125, 140, 160, 180, 200, 224, 250, 280,
             315, 355, 400, 450, 500, 560, 630, 710, 800, 900>>
Tab_R40 == <<100, 106, 112, 118, 125, 132, 140, 150, 160, 170,
             180, 190, 200, 212, 224, 236, 250, 265, 280, 300,
             315, 335, 355, 375, 400, 425, 450, 475, 500, 530,
             560, 600, 630, 670, 710, 750, 800, 850, 900, 950>>
Tab_R80_typo ==
           <<100, 103, 106, 109, 112, 115, 118, 122, 125, 128,
             132, 136, 140, 145, 150, 155, 160, 165, 170, 175,
             180, 185, 190, 195, 200, 206, 212, 218, 224, 230,
             236, 243, 250, 258, 265, 272, 280, 290, 300, 307,
             315, 325, 335, 345, 355, 365, 375, 387, 400, 412,
             425, 437, 450, 462, 475, 487, 500, 515, 530, 545,
             560, 580, 600, 615, 630, 650, 670, 690, 710, 730,
             750, 775, 800, 825, 850, 875, 900, 925, 950, 1000>>
Tab_R80 == <<100, 103, 106, 109, 112, 115, 118, 122, 125, 128,
             132, 136, 140, 145, 150, 155, 160, 165, 170, 175,
             180, 185, 190, 195, 200, 206, 212, 218, 224, 230,
             236, 243, 250, 258, 265, 272, 280, 290, 300, 307,
             315, 325, 335, 345, 355, 365, 375, 387, 400, 412,
             425, 437, 450, 462, 475, 487, 500, 515, 530, 545,
             560, 580, 600, 615, 630, 650, 670, 690, 710, 730,
             750, 775, 800, 825, 850, 875, 900, 925, 950, 975>>
Tab_Rr5 == <<100, 160, 250, 400, 630>>
Tab_Rr10 == <<100, 125, 160, 200, 250, 320, 400, 500, 630, 800>>
Tab_Rr20 == <<100, 110, 125, 140, 160, 180, 200, 220, 250, 280,
              320, 360, 400, 450, 500, 560, 630, 710, 800, 900>>
Tab_Rr40 == <<100, 105, 110, 120, 125, 130, 140, 150, 160, 170,
              180, 190, 200, 210, 220, 240, 250, 260, 280, 300,
              320, 340, 360, 380, 400, 420, 450, 480, 500, 530,
              560, 600, 630, 670, 710, 750, 800, 850, 900, 950>>
Tab_Rrr5 == <<100, 150, 250, 400, 600>>
Tab_Rrr10 == <<100, 120, 150, 200, 250, 300, 400, 500, 600, 800>>
Tab_Rrr20 == <<100, 110, 120, 140, 150, 180, 200, 220, 250, 280,
               300, 350, 400, 450, 500, 550, 600, 700, 800, 900>>

\* PfO = 2 and DfA = [0], set before the dispatch
PfO == 2
DfA == <<0>>

\* return [PfT, PfO, DfA]
LkReturn(tab) == [raised |-> FALSE, val |-> <<tab, PfO, DfA>>]
\* raise Exception('Unrecognized preferred number series token.')
LkRaise == [raised |-> TRUE, val |-> <<>>]

\* The dispatch with a fall-through default instead of the raise.
PrNmRLkUp_noraise(PfT) ==
    IF PfT = "R5" THEN LkReturn(Tab_R5)
    ELSE IF PfT = "R10" THEN LkReturn(Tab_R10)
    ELSE IF PfT = "R20" THEN LkReturn(Tab_R20)
    ELSE IF PfT = "R40" THEN LkReturn(Tab_R40)
    ELSE IF PfT = "R80" THEN LkReturn(Tab_R80)
    ELSE IF PfT = "R\"5" THEN LkReturn(Tab_Rrr5)
    ELSE IF PfT = "R\"10" THEN LkReturn(Tab_Rrr10)
    ELSE IF PfT = "R\"20" THEN LkReturn(Tab_Rrr20)
    ELSE LkReturn(Tab_R5)

\* The dispatch with a flag that depends on the kind of series.
PrNmRLkUp_kindflag(PfT) ==
    IF PfT = "R5" THEN LkReturn(Tab_R5)
    ELSE IF PfT = "R10" THEN LkReturn(Tab_R10)
    ELSE IF PfT = "R20" THEN LkReturn(Tab_R20)
    ELSE IF PfT = "R40" THEN LkReturn(Tab_R40)
    ELSE IF PfT = "R80" THEN LkReturn(Tab_R80)
    ELSE IF PfT = "R\"5" THEN [raised |-> FALSE, val |-> <<Tab_Rrr5, 0, DfA>>]
    ELSE IF PfT = "R\"10" THEN [raised |-> FALSE, val |-> <<Tab_Rrr10, 0, DfA>>]
    ELSE IF PfT = "R\"20" THEN [raised |-> FALSE, val |-> <<Tab_Rrr20, 0, DfA>>]
    ELSE LkRaise

\* PrNmRLkUp: the if/elif chain.  Python joins adjacent string literals, so
\* the comparand written 'R''5' is the string 'R' + '5'; likewise 'R''10',
\* 'R''20' and 'R''40'.
PrNmRLkUp(PfT) ==
    IF PfT = "R5" THEN LkReturn(Tab_R5)
    ELSE IF PfT = "R10" THEN LkReturn(Tab_R10)
    ELSE IF PfT = "R20" THEN LkReturn(Tab_R20)
    ELSE IF PfT = "R40" THEN LkReturn(Tab_R40)
    ELSE IF PfT = "R80" THEN LkReturn(Tab_R80)
    ELSE IF PfT = "R" \o "5" THEN LkReturn(Tab_Rr5)
    ELSE IF PfT = "R" \o "10" THEN LkReturn(Tab_Rr10)
    ELSE IF PfT = "R" \o "20" THEN LkReturn(Tab_Rr20)
    ELSE IF PfT = "R" \o "40" THEN LkReturn(Tab_Rr40)
    ELSE IF PfT = "R\"5" THEN LkReturn(Tab_Rrr5)
    ELSE IF PfT = "R\"10" THEN LkReturn(Tab_Rrr10)
    ELSE IF PfT = "R\"20" THEN LkReturn(Tab_Rrr20)
    ELSE LkRaise

(***************************************************************************)
(* prefnum.  The body computes IxZ = InA>0 (elementwise on the vector) and *)
(* IsV = True and then ends, so the call returns None.                     *)
(***************************************************************************)
IxZ_of(InA) == [i \in 1..Len(InA) |-> InA[i] > 0]
PyNone == [isNone |-> TRUE, PfA |-> <<>>, PfS |-> <<>>]
prefnum(InA, PfT, varargin) == PyNone
prefnum_locals(InA, PfT, varargin) == [IxZ |-> IxZ_of(InA), IsV |-> TRUE]

\* input vectors, tolerances
Vectors == UNION {[1..n -> 0..MaxVal] : n \in 0..MaxLen}
Varargins == {<<>>, <<0>>}

\* the state of a function that is not the one called last
LkIdle ==
    /\ lk_called = FALSE
    /\ lk_PfT = ""
    /\ lk_ret = LkRaise
PfIdle ==
    /\ pf_called = FALSE
    /\ pf_InA = <<>>
    /\ pf_PfT = ""
    /\ pf_varargin = <<>>
    /\ pf_locals = [IxZ |-> <<>>, IsV |-> FALSE]
    /\ pf_ret = PyNone

PrefInit == LkIdle /\ PfIdle

Call_PrNmRLkUp ==
    \E tok \in Tokens :
        /\ lk_called' = TRUE
        /\ lk_PfT' = tok
        /\ lk_ret' = PrNmRLkUp(tok)
        /\ pf_called' = FALSE /\ pf_InA' = <<>> /\ pf_PfT' = ""
        /\ pf_varargin' = <<>> /\ pf_locals' = [IxZ |-> <<>>, IsV |-> FALSE]
        /\ pf_ret' = PyNone
        /\ UNCHANGED steamVars

Call_prefnum ==
    \E InA \in Vectors, tok \in PrefTokens, va \in Varargins :
        /\ pf_called' = TRUE
        /\ pf_InA' = InA
        /\ pf_PfT' = tok
        /\ pf_varargin' = va
        /\ pf_locals' = prefnum_locals(InA, tok, va)
        /\ pf_ret' = prefnum(InA, tok, va)
        /\ lk_called' = FALSE /\ lk_PfT' = "" /\ lk_ret' = LkRaise
        /\ UNCHANGED steamVars

(***************************************************************************)
(* Python floats.  A float is <<m, e>>, the number m * 2^e, with m odd or  *)
(* <<0, 0>> for zero, and at most MantBits significant bits in m; every    *)
(* arithmetic operation rounds its exact result to the nearest float, ties *)
(* to even, as IEEE 754 binary arithmetic does (there with 53 bits).       *)
(***************************************************************************)
MantBits == 4        \* significant bits of a float
XBits == 4           \* the qualities x are the multiples of 2^-XBits in [0, 1]

Abs(n) == IF n < 0 THEN -n ELSE n
Sgn(n) == IF n < 0 THEN -1 ELSE 1
Min(a, b) == IF a < b THEN a ELSE b

RECURSIVE BitLen(_)
BitLen(n) == IF n = 0 THEN 0 ELSE 1 + BitLen(n \div 2)

RECURSIVE Norm(_, _)
Norm(M, E) ==
    IF M = 0 THEN <<0, 0>>
    ELSE IF M % 2 = 0 THEN Norm(M \div 2, E + 1)
    ELSE <<M, E>>

\* the bits of M * 2^E that do not fit in MantBits
Excess(M) == BitLen(Abs(M)) - MantBits
\* rounding M * 2^E loses nothing
ExactME(M, E) == Excess(M) <= 0 \/ Abs(M) % (2 ^ Excess(M)) = 0

\* round M * 2^E to the nearest float, ties to even
RoundME(M, E) ==
    LET k == Excess(M) IN
    IF k <= 0 THEN Norm(M, E)
    ELSE LET a == Abs(M)
             hi == a \div (2 ^ k)
             lo == a % (2 ^ k)
             half == 2 ^ (k - 1)
             up == lo > half \/ (lo = half /\ hi % 2 = 1)
         IN Norm(Sgn(M) * (IF up THEN hi + 1 ELSE hi), E + k)

FZero == <<0, 0>>
FOne == <<1, 0>>
FNeg(a) == <<-a[1], a[2]>>

\* exact sum a + b as M * 2^E
SumM(a, b) == LET e == Min(a[2], b[2])
              IN a[1] * (2 ^ (a[2] - e)) + b[1] * (2 ^ (b[2] - e))
SumE(a, b) == Min(a[2], b[2])
FAdd(a, b) == RoundME(SumM(a, b), SumE(a, b))
FSub(a, b) == FAdd(a, FNeg(b))
FMul(a, b) == RoundME(a[1] * b[1], a[2] + b[2])
FLess(a, b) == SumM(a, FNeg(b)) < 0

\* quotient a / b (b non-zero) as M * 2^E, the last bit of M sticky
DivS(b) == MantBits + 2 + BitLen(Abs(b[1]))
DivM(a, b) == LET n == Abs(a[1]) * (2 ^ DivS(b))
                  d == Abs(b[1])
              IN Sgn(a[1]) * Sgn(b[1])
                   * (2 * (n \div d) + (IF n % d = 0 THEN 0 ELSE 1))
DivE(a, b) == a[2] - b[2] - DivS(b) - 1
FDiv(a, b) == RoundME(DivM(a, b), DivE(a, b))

(***************************************************************************)
(* steamtables.  Temperatures and pressures are counted in units of a      *)
(* quarter of tol (0.00025), so that tol = 1e-3 is 4: phase only compares  *)
(* them and takes the difference T - Tsat of two nearby values.            *)
(***************************************************************************)
tol == 4

Tsat0 == 40          \* the saturation temperature of the table rows
TSpread == 6         \* phase is called with T within TSpread of Tsat0

Columns == {"T", "P"}
Keys == {Tsat0}
VfSet == {<<1, 0>>, <<3, -1>>}
VgSet == {<<3, -1>>, <<5, 0>>, <<13, 0>>, <<7, 1>>}
Rows == {r \in [T : {Tsat0}, P : {Tsat0}, Vf : VfSet, Vg : VgSet] :
             ~ FLess(r.Vg, r.Vf)}
XSet == {RoundME(k, -XBits) : k \in 0..(2 ^ XBits)}
VolSet == VfSet \cup VgSet \cup {<<1, -1>>, <<5, -2>>, <<1, 2>>, <<1, 4>>}

\* stable: one interpolated value per requested column
stable(value, _input, params) ==
    [i \in 1..Len(params) |-> saturation_table[<<_input, value>>][params[i]]]

mixture_volume(x, value, _input) ==
    LET s == stable(value, _input, <<"Vf", "Vg">>)
        vfsat == s[1]
        vgsat == s[2]
    IN FAdd(FMul(FSub(FOne, x), vfsat), FMul(x, vgsat))

VqReturn(q) == [raised |-> FALSE, val |-> q]
ZeroDivisionError == [raised |-> TRUE, val |-> FZero]

\* the quotient taken over vgsat instead of vgsat - vfsat
vapor_quality_overVg(v, value, _input) ==
    LET s == stable(value, _input, <<"Vf", "Vg">>)
        vfsat == s[1]
        vgsat == s[2]
    IN IF FSub(vgsat, vfsat) = FZero THEN ZeroDivisionError
       ELSE VqReturn(FDiv(FSub(v, vfsat), vgsat))

vapor_quality(v, value, _input) ==
    LET s == stable(value, _input, <<"Vf", "Vg">>)
        vfsat == s[1]
        vgsat == s[2]
    IN IF FSub(vgsat, vfsat) = FZero THEN ZeroDivisionError
       ELSE VqReturn(FDiv(FSub(v, vfsat), FSub(vgsat, vfsat)))

None == <<>>
NoLabel == "None"
Mixture == "Two mixed phase mixture liquid and vapor"

phase(T, P, v) ==
    IF P /= None
    THEN LET s == stable(P[1], "P", <<"T", "Vf", "Vg">>)
             Tsat == s[1]
         IN IF T < Tsat THEN "Supercooled liquid"
            ELSE IF Abs(T - Tsat) < tol THEN Mixture
            ELSE "Vapor"
    ELSE IF v /= None
    THEN LET s == stable(T, "T", <<"P", "Vf", "Vg">>)
             vfsat == s[2]
             vgsat == s[3]
         IN IF FLess(v[1], vfsat) THEN "Liquid"
            ELSE IF FLess(vfsat, v[1]) /\ FLess(v[1], vgsat) THEN Mixture
            ELSE IF FLess(vgsat, v[1]) THEN "Super Heated Vapor"
            ELSE NoLabel
    ELSE NoLabel

SteamIdle ==
    /\ fn = "none"
    /\ ph_T = 0
    /\ ph_P = None
    /\ ph_v = None
    /\ ph_ret = NoLabel
    /\ mv_x = FZero
    /\ mv_value = Tsat0
    /\ mv_input = "T"
    /\ mv_ret = FZero
    /\ vq_ret = VqReturn(FZero)

SteamInit ==
    /\ saturation_table \in [Columns \X Keys -> Rows]
    /\ SteamIdle

Call_phase_P ==
    \E T \in (Tsat0 - TSpread)..(Tsat0 + TSpread), P \in Keys :
        /\ fn' = "phase"
        /\ ph_T' = T
        /\ ph_P' = <<P>>
        /\ ph_v' = None
        /\ ph_ret' = phase(T, <<P>>, None)
        /\ mv_x' = FZero /\ mv_value' = Tsat0 /\ mv_input' = "T"
        /\ mv_ret' = FZero /\ vq_ret' = VqReturn(FZero)
        /\ UNCHANGED <<saturation_table, prefVars>>

Call_phase_v ==
    \E T \in Keys, v \in VolSet :
        /\ fn' = "phase"
        /\ ph_T' = T
        /\ ph_P' = None
        /\ ph_v' = <<v>>
        /\ ph_ret' = phase(T, None, <<v>>)
        /\ mv_x' = FZero /\ mv_value' = Tsat0 /\ mv_input' = "T"
        /\ mv_ret' = FZero /\ vq_ret' = VqReturn(FZero)
        /\ UNCHANGED <<saturation_table, prefVars>>

Call_mixture_volume ==
    \E x \in XSet, value \in Keys, _input \in Columns :
        /\ fn' = "mixture_volume"
        /\ mv_x' = x
        /\ mv_value' = value
        /\ mv_input' = _input
        /\ mv_ret' = mixture_volume(x, value, _input)
        /\ vq_ret' = VqReturn(FZero)
        /\ ph_T' = 0 /\ ph_P' = None /\ ph_v' = None /\ ph_ret' = NoLabel
        /\ UNCHANGED <<saturation_table, prefVars>>

\* vapor_quality applied to the volume mixture_volume has just returned
Call_vapor_quality ==
    /\ fn = "mixture_volume"
    /\ fn' = "vapor_quality"
    /\ vq_ret' = vapor_quality(mv_ret, mv_value, mv_input)
    /\ UNCHANGED <<saturation_table, ph_T, ph_P, ph_v, ph_ret,
                   mv_x, mv_value, mv_input, mv_ret, prefVars>>

(***************************************************************************)
(* Specifications.                                                         *)
(***************************************************************************)
SteamParked ==
    /\ saturation_table = [k \in Columns \X Keys |->
                              [T |-> Tsat0, P |-> Tsat0, Vf |-> FOne, Vg |-> FOne]]
    /\ SteamIdle

Init == PrefInit /\ SteamParked
Next == Call_PrNmRLkUp \/ Call_prefnum
Spec == Init /\ [][Next]_vars

InitSteam == SteamInit /\ PrefInit
NextSteam ==
    \/ Call_phase_P
    \/ Call_phase_v
    \/ Call_mixture_volume
    \/ Call_vapor_quality
SpecSteam == InitSteam /\ [][NextSteam]_vars

(***************************************************************************)
(* Properties of the series lookup, checked under Spec.                    *)
(***************************************************************************)

\* C1: PrNmRLkUp raises the unrecognized-series error for every token that
\* is not one of the known series names, and returns no series then.
C1_UnknownTokenRaises ==
    (lk_called /\ lk_PfT \notin KnownTokens)
        => (lk_ret.raised /\ lk_ret.val = <<>>)
C1_Witness == lk_called /\ lk_PfT = "E7" /\ lk_ret.raised

\* C2: PrNmRLkUp raises only for unknown tokens: for every token of the
\* enumerated set it returns a series.
C2_KnownTokenReturns ==
    (lk_called /\ lk_PfT \in KnownTokens)
        => (~ lk_ret.raised /\ Len(lk_ret.val) = 3)

\* C3: each rounded token R'5, R'10, R'20, R'40 yields its rounded table,
\* which differs from the basic series of the same step count, and each
\* twice-rounded token R"5, R"10, R"20 yields its twice-rounded table.
SeriesOf(ret) == IF ret.raised THEN <<>> ELSE ret.val[1]
C3_RoundedTables ==
    lk_called =>
        /\ lk_PfT = "R'5" => SeriesOf(lk_ret) = Tab_Rr5 /\ Tab_Rr5 /= Tab_R5
        /\ lk_PfT = "R'10" => SeriesOf(lk_ret) = Tab_Rr10 /\ Tab_Rr10 /= Tab_R10
        /\ lk_PfT = "R'20" => SeriesOf(lk_ret) = Tab_Rr20 /\ Tab_Rr20 /= Tab_R20
        /\ lk_PfT = "R'40" => SeriesOf(lk_ret) = Tab_Rr40 /\ Tab_Rr40 /= Tab_R40
        /\ lk_PfT = "R\"5" => SeriesOf(lk_ret) = Tab_Rrr5
        /\ lk_PfT = "R\"10" => SeriesOf(lk_ret) = Tab_Rrr10
        /\ lk_PfT = "R\"20" => SeriesOf(lk_ret) = Tab_Rrr20

\* C4 (as stated): the flag returned for a twice-rounded token differs from
\* the flag returned for a basic token (and both from that of a rounded one).
FlagOf(ret) == ret.val[2]
C4_FlagDistinguishesKinds ==
    (lk_called /\ ~ lk_ret.raised /\ lk_PfT \in TwiceRoundedTokens)
        => \A b \in BasicTokens :
               ~ PrNmRLkUp(b).raised
                   => FlagOf(lk_ret) /= FlagOf(PrNmRLkUp(b))
\* C4 (amended): the flag does not distinguish the kinds of series: it is 2
\* for every token the lookup accepts, basic and twice-rounded alike.
C4_FlagIsConstant ==
    (lk_called /\ ~ lk_ret.raised) => FlagOf(lk_ret) = 2
C4_Witness ==
    /\ lk_called /\ ~ lk_ret.raised
    /\ lk_PfT = "R\"10"
    /\ FlagOf(lk_ret) = 2
    /\ FlagOf(PrNmRLkUp("R10")) = 2

\* C5: every series the lookup returns is strictly increasing and lies in
\* one decade: all values in [100, 1000), so max/min < 10.
StrictlyIncreasing(s) == \A i \in 1..(Len(s) - 1) : s[i] < s[i + 1]
C5_SeriesOneDecade ==
    (lk_called /\ ~ lk_ret.raised)
        => LET s == SeriesOf(lk_ret)
           IN /\ Len(s) > 0
              /\ StrictlyIncreasing(s)
              /\ \A i \in 1..Len(s) : 100 <= s[i] /\ s[i] < 1000
              /\ s[Len(s)] < 10 * s[1]
C5_Witness ==
    /\ lk_called /\ ~ lk_ret.raised
    /\ lk_PfT = "R80"
    /\ Len(SeriesOf(lk_ret)) = 80

(***************************************************************************)
(* Properties of prefnum, checked under Spec.                              *)
(***************************************************************************)

\* C6: prefnum returns a rounded vector as long as the input, holding zero
\* wherever the input holds zero.
C6_ZeroStaysZero ==
    pf_called =>
        /\ ~ pf_ret.isNone
        /\ Len(pf_ret.PfA) = Len(pf_InA)
        /\ \A i \in 1..Len(pf_InA) : pf_InA[i] = 0 => pf_ret.PfA[i] = 0

\* C7: prefnum returns the rounded vector and the spanning series, and each
\* rounded value at a non-zero input is an element of the spanning series.
C7_RoundedInSpanningSeries ==
    pf_called =>
        /\ ~ pf_ret.isNone
        /\ Len(pf_ret.PfA) = Len(pf_InA)
        /\ \A i \in 1..Len(pf_InA) :
               pf_InA[i] /= 0
                   => \E j \in 1..Len(pf_ret.PfS) : pf_ret.PfS[j] = pf_ret.PfA[i]

(***************************************************************************)
(* Properties of the steam helpers, checked under SpecSteam.               *)
(***************************************************************************)

\* C8: phase(T, P=P) uses a symmetric band around Tsat(P): the mixture label
\* whenever |T - Tsat| < tol, "Supercooled liquid" only when T <= Tsat - tol,
\* "Vapor" only when T >= Tsat + tol.
C8_SymmetricBand ==
    (fn = "phase" /\ ph_P /= None)
        => LET Tsat == stable(ph_P[1], "P", <<"T">>)[1]
           IN /\ Abs(ph_T - Tsat) < tol => ph_ret = Mixture
              /\ ph_ret = "Supercooled liquid" => ph_T <= Tsat - tol
              /\ ph_ret = "Vapor" => ph_T >= Tsat + tol

\* C9: phase(T, v=v) returns one of the three labels for every v, also for
\* v = vfsat(T) and v = vgsat(T); it never returns no label.
C9_AlwaysALabel ==
    (fn = "phase" /\ ph_P = None /\ ph_v /= None)
        => ph_ret \in {"Liquid", Mixture, "Super Heated Vapor"}

\* the saturated volumes of the last mixture_volume call
MvVf == stable(mv_value, mv_input, <<"Vf", "Vg">>)[1]
MvVg == stable(mv_value, mv_input, <<"Vf", "Vg">>)[2]
\* mixture_volume yields vfsat at x = 0 and vgsat at x = 1
MixtureEndpoints ==
    fn \in {"mixture_volume", "vapor_quality"}
        => /\ mv_x = FZero => mv_ret = MvVf
           /\ mv_x = FOne => mv_ret = MvVg
\* no operation of the round trip on (x, vfsat, vgsat) rounds its result
NoRounding(x, vf, vg) ==
    LET a == FSub(FOne, x)
        b == FMul(a, vf)
        c == FMul(x, vg)
        v == FAdd(b, c)
        n == FSub(v, vf)
        d == FSub(vg, vf)
    IN /\ ExactME(SumM(FOne, FNeg(x)), SumE(FOne, FNeg(x)))
       /\ ExactME(a[1] * vf[1], a[2] + vf[2])
       /\ ExactME(x[1] * vg[1], x[2] + vg[2])
       /\ ExactME(SumM(b, c), SumE(b, c))
       /\ ExactME(SumM(v, FNeg(vf)), SumE(v, FNeg(vf)))
       /\ ExactME(SumM(vg, FNeg(vf)), SumE(vg, FNeg(vf)))
       /\ d /= FZero
       /\ ExactME(DivM(n, d), DivE(n, d))

====
